---------------------------- MODULE Spec2Model ----------------------------
(***************************************************************************)
(* HubSpot MCP client (src/hubspot_mcp_client.py): the session loop, the   *)
(* classifier adapter (analyze_intent), the resolver                       *)
(* (process_smart_command), the dispatcher (process_query) and the manual  *)
(* path (manual_command).                                                  *)
(*                                                                         *)
(* A Python str is a sequence of tokens.  A token is one character ("a",   *)
(* "@", ".") or a run of word characters written as one unit ("quit",      *)
(* "get_contacts").  A Python dict is a function from keys to tagged       *)
(* values: [t |-> "str", s |-> <tokens>], [t |-> "num", n |-> <tenths>]    *)
(* or [t |-> "obj", o |-> <function>].                                     *)
(***************************************************************************)
EXTENDS Integers, Sequences, FiniteSets, TLC

(***************************************************************************)
(* Characters and character classes of the email pattern (line 129).      *)
(***************************************************************************)

\* runs of ASCII letters only
LetterToks == {"a", "b", "quit", "QUIT", "Quit", "hello"}

\* decimal digits
DigitToks == {"0", "1"}

\* runs of word characters that contain an underscore
UnderscoreToks == {"_", "get_contacts", "create_contact", "get_deals",
                   "search_contact_by_email", "analyze_crm_data", "ask_groq",
                   "delete_contact", "get_companies"}

\* tokens that stand for exactly one character
SingleChars == {"a", "b", "0", "1", "_", "@", ".", "|", " ", "-", "%", "+"}

\* \w of Python's re for ASCII text
IsWordChar(t) == t \in LetterToks \cup DigitToks \cup UnderscoreToks

\* [A-Za-z0-9._%+-]
InLocal(t) == IsWordChar(t) \/ t \in {".", "%", "+", "-"}

\* [A-Za-z0-9.-]
InDomain(t) == t \in LetterToks \cup DigitToks \cup {".", "-"}

\* [A-Z|a-z]: inside a character class the bar is a literal character
InTld(t) == t \in LetterToks \cup {"|"}

IsWordAt(s, i) == i \in 1..Len(s) /\ IsWordChar(s[i])

\* \b holds between s[p-1] and s[p]
WordBoundary(s, p) == IsWordAt(s, p - 1) # IsWordAt(s, p)

\* {2,}: at least two characters in s[lo..hi]
AtLeastTwoChars(s, lo, hi) ==
    \/ hi - lo + 1 >= 2
    \/ hi = lo /\ s[lo] \notin SingleChars

\* the pattern matches s[i..e] with the "@" at k and the last "\." at d
EmailMatches(s, i, k, d, e) ==
    /\ 1 <= i /\ i < k /\ k + 1 < d /\ d < e /\ e <= Len(s)
    /\ WordBoundary(s, i)
    /\ \A j \in i..(k - 1) : InLocal(s[j])
    /\ s[k] = "@"
    /\ \A j \in (k + 1)..(d - 1) : InDomain(s[j])
    /\ s[d] = "."
    /\ \A j \in (d + 1)..e : InTld(s[j])
    /\ AtLeastTwoChars(s, d + 1, e)
    /\ WordBoundary(s, e + 1)

MaxOf(S) == CHOOSE x \in S : \A y \in S : y <= x
MinOf(S) == CHOOSE x \in S : \A y \in S : x <= y

NoMatch == <<"", "no match">>

\* re.search(pattern, s): the leftmost start; the domain and then the
\* top-level domain take as much as backtracking lets them keep.
EmailSearch(s) ==
    LET P   == 1..Len(s)
        Starts == {i \in P : \E k, d, e \in P : EmailMatches(s, i, k, d, e)}
    IN  IF Starts = {} THEN NoMatch
        ELSE LET i  == MinOf(Starts)
                 k  == CHOOSE k \in P : \E d, e \in P : EmailMatches(s, i, k, d, e)
                 d  == MaxOf({d \in P : \E e \in P : EmailMatches(s, i, k, d, e)})
                 e  == MaxOf({e \in P : EmailMatches(s, i, k, d, e)})
             IN  SubSeq(s, i, e)

(***************************************************************************)
(* Python values and the JSON text of a classifier reply.                  *)
(***************************************************************************)

StrV(s) == [t |-> "str", s |-> s, o |-> <<>>]
NumV(n) == [t |-> "num", s |-> n, o |-> <<>>]
NullV   == [t |-> "null", s |-> <<>>, o |-> <<>>]
ObjV(f) == [t |-> "obj", s |-> <<>>, o |-> f]

EmptyDict == <<>>

\* d[k] = v
DictSet(d, k, v) == (k :> v) @@ d

\* lexemes of a reply: punctuation, literals, and prose that is no JSON
LBRACE == [k |-> "{", v |-> <<>>]
RBRACE == [k |-> "}", v |-> <<>>]
COLON  == [k |-> ":", v |-> <<>>]
COMMA  == [k |-> ",", v |-> <<>>]
NULL   == [k |-> "null", v |-> <<>>]
PROSE  == [k |-> "prose", v |-> <<>>]
STR(s) == [k |-> "str", v |-> s]
NUM(n) == [k |-> "num", v |-> n]

ParseFail == [ok |-> FALSE, val |-> NullV, next |-> 0]

RECURSIVE ParseValue(_, _), ParseMembers(_, _, _)

\* json.loads, one value starting at c[i]: strings, numbers, null, objects
ParseValue(c, i) ==
    IF i > Len(c) THEN ParseFail
    ELSE CASE c[i].k = "str"  -> [ok |-> TRUE, val |-> StrV(c[i].v), next |-> i + 1]
           [] c[i].k = "num"  -> [ok |-> TRUE, val |-> NumV(c[i].v), next |-> i + 1]
           [] c[i].k = "null" -> [ok |-> TRUE, val |-> NullV, next |-> i + 1]
           [] c[i].k = "{"    ->
                IF i + 1 <= Len(c) /\ c[i + 1].k = "}"
                THEN [ok |-> TRUE, val |-> ObjV(EmptyDict), next |-> i + 2]
                ELSE ParseMembers(c, i + 1, EmptyDict)
           [] OTHER -> ParseFail

\* the members of an object from c[i] on: "key" : value, then "," or "}";
\* a key given twice keeps its last value
ParseMembers(c, i, acc) ==
    IF ~(i + 1 <= Len(c) /\ c[i].k = "str" /\ c[i + 1].k = ":") THEN ParseFail
    ELSE LET r == ParseValue(c, i + 2)
         IN  IF ~r.ok \/ r.next > Len(c) THEN ParseFail
             ELSE LET acc2 == DictSet(acc, c[i].v, r.val)
                  IN  CASE c[r.next].k = "}" -> [ok |-> TRUE, val |-> ObjV(acc2), next |-> r.next + 1]
                        [] c[r.next].k = "," -> ParseMembers(c, r.next + 1, acc2)
                        [] OTHER -> ParseFail

\* json.loads(c): the whole text is one value, or it raises
JsonLoads(c) ==
    LET r == ParseValue(c, 1)
    IN  IF r.ok /\ r.next = Len(c) + 1 THEN r ELSE ParseFail

NoSpan == <<PROSE>>

\* re.search(r'\{.*\}', c, re.DOTALL).group(): from the first "{" to the
\* last "}" after it (".*" is greedy and DOTALL lets it cross lines)
BraceSearch(c) ==
    LET opens == {i \in 1..Len(c) : c[i].k = "{"}
    IN  IF opens = {} THEN NoSpan
        ELSE LET first  == MinOf(opens)
                 closes == {j \in (first + 1)..Len(c) : c[j].k = "}"}
             IN  IF closes = {} THEN NoSpan
                 ELSE SubSeq(c, first, MaxOf(closes))

(***************************************************************************)
(* Names, keys and the degraded decision.                                  *)
(***************************************************************************)

GET_CONTACTS            == <<"get_contacts">>
CREATE_CONTACT          == <<"create_contact">>
GET_DEALS               == <<"get_deals">>
SEARCH_CONTACT_BY_EMAIL == <<"search_contact_by_email">>
ANALYZE_CRM_DATA        == <<"analyze_crm_data">>
ASK_GROQ                == <<"ask_groq">>

KEY_TOOL       == <<"tool">>
KEY_PARAMS     == <<"params">>
KEY_CONFIDENCE == <<"confidence">>
KEY_QUERY      == <<"query">>
KEY_QUESTION   == <<"question">>
KEY_EMAIL      == <<"email">>
KEY_LIMIT      == <<"limit">>

\* the confidence of a decision made without asking the classifier
ConfidenceNoCredential == <<"0.0">>

\* the confidence of a decision made after the classifier failed
ConfidenceFailed == <<"0.5">>

\* a fallback that names the analysis operation instead of ask_groq
DegradedToAnalyze(user_input, c) ==
    DictSet(DictSet(DictSet(EmptyDict,
        KEY_TOOL, StrV(ANALYZE_CRM_DATA)),
        KEY_PARAMS, ObjV(DictSet(EmptyDict, KEY_QUESTION, StrV(user_input)))),
        KEY_CONFIDENCE, NumV(c))

\* {"tool": "ask_groq", "params": {"question": user_input}, "confidence": c}
Degraded(user_input, c) ==
    DictSet(DictSet(DictSet(EmptyDict,
        KEY_TOOL, StrV(ASK_GROQ)),
        KEY_PARAMS, ObjV(DictSet(EmptyDict, KEY_QUESTION, StrV(user_input)))),
        KEY_CONFIDENCE, NumV(c))

\* a test "self.groq_api_key is None", which takes "" for a credential
NoCredentialOnlyNone(key) == key = "None"

\* "not self.groq_api_key": None and "" are both falsy
NoCredential(key) == key \in {"None", ""}

\* response.status_code == 200
StatusOk(status) == status = 200

\* analyze_intent without the status test: the body of any response is parsed
IntentOfResponseAnyStatus(user_input, resp) ==
    IF resp.kind = "exception" THEN Degraded(user_input, ConfidenceFailed)
    ELSE IF resp.body # "content" THEN Degraded(user_input, ConfidenceFailed)
    ELSE LET json_match == BraceSearch(resp.content)
         IN  IF json_match = NoSpan THEN Degraded(user_input, ConfidenceFailed)
             ELSE IF JsonLoads(json_match).ok THEN JsonLoads(json_match).val.o
             ELSE Degraded(user_input, ConfidenceFailed)

\* The classifier round trip of analyze_intent: what is returned for the
\* response resp.  resp.kind is "exception" (transport error or timeout),
\* or "response" with a status and a body; the body is "unparsable"
\* (response.json() raises), "nochoices" (the subscripts raise) or "content".
IntentOfResponse(user_input, resp) ==
    IF resp.kind = "exception" THEN Degraded(user_input, ConfidenceFailed)
    ELSE IF ~StatusOk(resp.status) THEN Degraded(user_input, ConfidenceFailed)
    ELSE IF resp.body # "content" THEN Degraded(user_input, ConfidenceFailed)
    ELSE LET json_match == BraceSearch(resp.content)
         IN  IF json_match = NoSpan THEN Degraded(user_input, ConfidenceFailed)
             ELSE IF JsonLoads(json_match).ok THEN JsonLoads(json_match).val.o
             ELSE Degraded(user_input, ConfidenceFailed)

(***************************************************************************)
(* The resolver: lines 121-131 of process_smart_command.                   *)
(***************************************************************************)

\* sub occurs in s as a contiguous run (Python's "in" on two strings)
Contains(s, sub) ==
    \E i \in 1..(Len(s) - Len(sub) + 1) : SubSeq(s, i, i + Len(sub) - 1) = sub

\* key not in p: "yes", "no", or the TypeError of a value that is no container
NotIn(key, p) ==
    CASE p.t = "obj" -> IF key \in DOMAIN p.o THEN "no" ELSE "yes"
      [] p.t = "str" -> IF Contains(p.s, key) THEN "no" ELSE "yes"
      [] OTHER       -> "TypeError"

Resolved(tool, p) == [exc |-> "none", tool |-> tool, params |-> p]
Raised(e, tool)   == [exc |-> e, tool |-> tool, params |-> NullV]

\* params[key] = v: only a dict supports item assignment
SetItem(tool, p, key, v) ==
    IF p.t = "obj" THEN Resolved(tool, ObjV(DictSet(p.o, key, v)))
    ELSE Raised("TypeError", tool)

\* a fill-in with the text that knows the analyze operation only
FillWithTextOnlyAnalyze(r, name, key, user_input) ==
    IF r.exc # "none" \/ r.tool # StrV(name) \/ name # ANALYZE_CRM_DATA THEN r
    ELSE CASE NotIn(key, r.params) = "TypeError" -> Raised("TypeError", r.tool)
           [] NotIn(key, r.params) = "no"        -> r
           [] OTHER -> SetItem(r.tool, r.params, key, StrV(user_input))

\* if tool_name == name and key not in params: params[key] = user_input
FillWithText(r, name, key, user_input) ==
    IF r.exc # "none" \/ r.tool # StrV(name) THEN r
    ELSE CASE NotIn(key, r.params) = "TypeError" -> Raised("TypeError", r.tool)
           [] NotIn(key, r.params) = "no"        -> r
           [] OTHER -> SetItem(r.tool, r.params, key, StrV(user_input))

\* a fill-in that overwrites an email the classifier gave
FillEmailAlways(r, user_input) ==
    IF r.exc # "none" \/ r.tool # StrV(SEARCH_CONTACT_BY_EMAIL) THEN r
    ELSE IF NotIn(KEY_EMAIL, r.params) = "TypeError" THEN Raised("TypeError", r.tool)
    ELSE IF EmailSearch(user_input) = NoMatch THEN r
    ELSE SetItem(r.tool, r.params, KEY_EMAIL, StrV(EmailSearch(user_input)))

\* if tool_name == "search_contact_by_email" and "email" not in params:
\* the first match of the email pattern in user_input, when there is one
FillEmail(r, user_input) ==
    IF r.exc # "none" \/ r.tool # StrV(SEARCH_CONTACT_BY_EMAIL) THEN r
    ELSE CASE NotIn(KEY_EMAIL, r.params) = "TypeError" -> Raised("TypeError", r.tool)
           [] NotIn(KEY_EMAIL, r.params) = "no"        -> r
           [] OTHER ->
                IF EmailSearch(user_input) = NoMatch THEN r
                ELSE SetItem(r.tool, r.params, KEY_EMAIL, StrV(EmailSearch(user_input)))

\* a resolver that also invents a limit for get_contacts
ResolveDefaultsLimit(it, user_input) ==
    IF KEY_TOOL \notin DOMAIN it THEN Raised("KeyError", NullV)
    ELSE IF KEY_PARAMS \notin DOMAIN it THEN Raised("KeyError", it[KEY_TOOL])
    ELSE FillEmail(
           FillWithText(
             FillWithText(
               IF it[KEY_TOOL] = StrV(GET_CONTACTS) /\ NotIn(KEY_LIMIT, it[KEY_PARAMS]) = "yes"
               THEN SetItem(it[KEY_TOOL], it[KEY_PARAMS], KEY_LIMIT, NumV(<<"1", "0">>))
               ELSE Resolved(it[KEY_TOOL], it[KEY_PARAMS]),
               ANALYZE_CRM_DATA, KEY_QUERY, user_input),
             ASK_GROQ, KEY_QUESTION, user_input),
           user_input)

\* intent["tool"], intent["params"], then the three fill-in rules in order
Resolve(it, user_input) ==
    IF KEY_TOOL \notin DOMAIN it THEN Raised("KeyError", NullV)
    ELSE IF KEY_PARAMS \notin DOMAIN it THEN Raised("KeyError", it[KEY_TOOL])
    ELSE FillEmail(
           FillWithText(
             FillWithText(Resolved(it[KEY_TOOL], it[KEY_PARAMS]),
                          ANALYZE_CRM_DATA, KEY_QUERY, user_input),
             ASK_GROQ, KEY_QUESTION, user_input),
           user_input)

\* a dispatcher that sends every name on without the membership check
RecognizedAnyName(tool, catalog) == tool.t = "str"

\* tool_name in self.available_tools
Recognized(tool, catalog) == tool.t = "str" /\ tool.s \in catalog

(***************************************************************************)
(* Console input: str.strip(), str.lower(), int().                         *)
(***************************************************************************)

IsSpace(t) == t = " "

RECURSIVE StripLeft(_), StripRight(_)
StripLeft(s)  == IF s # <<>> /\ IsSpace(Head(s)) THEN StripLeft(Tail(s)) ELSE s
StripRight(s) == IF s # <<>> /\ IsSpace(s[Len(s)])
                 THEN StripRight(SubSeq(s, 1, Len(s) - 1)) ELSE s

\* str.strip()
Strip(s) == StripRight(StripLeft(s))

LowerTok(t) == IF t \in {"QUIT", "Quit"} THEN "quit" ELSE t

\* str.lower()
Lower(s) == [i \in 1..Len(s) |-> LowerTok(s[i])]

QUIT == <<"quit">>

\* user_input.lower() == 'quit'
IsQuit(user_input) == Lower(user_input) = QUIT

RECURSIVE DropZeros(_)
DropZeros(s) == IF Len(s) > 1 /\ Head(s) = "0" THEN DropZeros(Tail(s)) ELSE s

Digits(s) == IF s # <<>> /\ Head(s) \in {"+", "-"} THEN Tail(s) ELSE s

\* the digits of a numeral without the underscores that group them
RECURSIVE DropUnderscores(_)
DropUnderscores(s) ==
    IF s = <<>> THEN <<>>
    ELSE IF Head(s) = "_" THEN DropUnderscores(Tail(s))
    ELSE <<Head(s)>> \o DropUnderscores(Tail(s))

\* int(s) accepts an optional sign and decimal digits, which single
\* underscores may group, and ignores blanks around them; anything else
\* raises ValueError
IsIntLiteral(s) ==
    LET d == Digits(Strip(s))
    IN  /\ d # <<>>
        /\ \A i \in 1..Len(d) : d[i] \in DigitToks \cup {"_"}
        /\ d[1] # "_" /\ d[Len(d)] # "_"
        /\ \A i \in 1..(Len(d) - 1) : ~(d[i] = "_" /\ d[i + 1] = "_")

\* the value of int(s), as its canonical numeral
IntValue(s) ==
    LET d == DropZeros(DropUnderscores(Digits(Strip(s))))
    IN  IF Head(Strip(s)) = "-" /\ d # <<"0">> THEN <<"-">> \o d ELSE d

\* int(limit) if limit else 10
DefaultLimit == <<"1", "0">>

(***************************************************************************)
(* The environment: catalogs a server may advertise, console lines,        *)
(* classifier responses and provider outcomes.                             *)
(***************************************************************************)

SixTools == {GET_CONTACTS, CREATE_CONTACT, GET_DEALS,
             SEARCH_CONTACT_BY_EMAIL, ANALYZE_CRM_DATA, ASK_GROQ}

\* the tools src/hubspot_mcp_server.py registers
ServerTools == {GET_CONTACTS, ANALYZE_CRM_DATA}

DELETE_CONTACT == <<"delete_contact">>
GET_COMPANIES  == <<"get_companies">>

Catalogs == {SixTools, ServerTools, SixTools \cup {GET_COMPANIES}}

\* how many prose lexemes may stand before or after the object of a reply
MaxProse == 1

RECURSIVE ProseRun(_)
ProseRun(n) == IF n = 0 THEN <<>> ELSE <<PROSE>> \o ProseRun(n - 1)

RECURSIVE JoinComma(_)
JoinComma(ms) ==
    IF ms = <<>> THEN <<>>
    ELSE IF Len(ms) = 1 THEN ms[1]
    ELSE ms[1] \o <<COMMA>> \o JoinComma(Tail(ms))

JPair(k, v) == <<STR(k), COLON>> \o v
JObj(ms)    == <<LBRACE>> \o JoinComma(ms) \o <<RBRACE>>

ClassifierValue == <<"hello">>

\* params objects the classifier may send: any of the three fill-in keys
ParamObjects ==
    { JObj(JoinPairs) : JoinPairs \in
        { <<>>,
          << JPair(KEY_QUERY, <<STR(ClassifierValue)>>) >>,
          << JPair(KEY_QUESTION, <<STR(ClassifierValue)>>) >>,
          << JPair(KEY_EMAIL, <<STR(ClassifierValue)>>) >>,
          << JPair(KEY_LIMIT, <<NUM(<<"1">>)>>) >>,
          << JPair(KEY_QUERY, <<STR(ClassifierValue)>>),
             JPair(KEY_QUESTION, <<STR(ClassifierValue)>>),
             JPair(KEY_EMAIL, <<STR(ClassifierValue)>>) >> } }

\* params values that are no object
ParamOthers == { <<STR(ClassifierValue)>>, <<STR(KEY_QUERY)>>, <<NUM(<<"1">>)>>, <<NULL>> }

DecisionTools == {ANALYZE_CRM_DATA, ASK_GROQ, SEARCH_CONTACT_BY_EMAIL,
                  GET_CONTACTS, CREATE_CONTACT, DELETE_CONTACT}

Confidence == JPair(KEY_CONFIDENCE, <<NUM(<<"0.9">>)>>)

\* the JSON objects a reply may carry
DecisionObjects ==
    { JObj(<<JPair(KEY_TOOL, <<STR(t)>>), JPair(KEY_PARAMS, p), Confidence>>) :
        t \in DecisionTools, p \in ParamObjects \cup ParamOthers }
    \cup { JObj(<<JPair(KEY_TOOL, <<STR(t)>>), Confidence>>) : t \in {ASK_GROQ, DELETE_CONTACT} }
    \cup { JObj(<<JPair(KEY_PARAMS, JObj(<<>>)), Confidence>>),
           JObj(<<Confidence>>),
           JObj(<<>>),
           JObj(<<JPair(KEY_TOOL, <<NUM(<<"1">>)>>), JPair(KEY_PARAMS, JObj(<<>>))>>),
           JObj(<<JPair(KEY_TOOL, <<NULL>>), JPair(KEY_PARAMS, JObj(<<>>))>>) }

SecondObject == JObj(<<JPair(KEY_TOOL, <<STR(GET_DEALS)>>), JPair(KEY_PARAMS, JObj(<<>>))>>)

\* what may surround the object: prose, stray braces, a second object
Wrappers ==
    { <<ProseRun(i), ProseRun(j)>> : i, j \in 0..MaxProse }
    \cup { <<<<>>, <<PROSE, RBRACE>>>>, <<<<>>, <<PROSE>> \o SecondObject>>,
           <<<<>>, <<LBRACE>>>>, <<<<RBRACE>>, <<>>>>, <<<<LBRACE, PROSE>>, <<>>>>,
           <<SecondObject \o <<PROSE>>, <<>>>> }

\* reply texts (choices[0].message.content)
Contents ==
    { w[1] \o obj \o w[2] : w \in Wrappers, obj \in DecisionObjects }
    \cup { ProseRun(i) : i \in 0..MaxProse }
    \cup { <<LBRACE, PROSE>>, <<RBRACE, PROSE, LBRACE>>,
           <<LBRACE, STR(KEY_TOOL), RBRACE>> }

OneDecision == JObj(<<JPair(KEY_TOOL, <<STR(GET_CONTACTS)>>), JPair(KEY_PARAMS, JObj(<<>>)), Confidence>>)

Response(kind, status, body, content) ==
    [kind |-> kind, status |-> status, body |-> body, content |-> content]

\* outcomes of client.post and of reading the response
Responses ==
    { Response("exception", 0, "none", <<>>) }
    \cup { Response("response", st, "content", OneDecision) : st \in {201, 404, 500} }
    \cup { Response("response", 200, b, <<>>) : b \in {"unparsable", "nochoices"} }
    \cup { Response("response", 200, "content", c) : c \in Contents }

Outcome(kind, text) == [kind |-> kind, text |-> text]

\* outcomes of session.call_tool and of reading result.content[0].text:
\* the call raises; a result with a text; a result whose content is empty
\* (IndexError) or whose first item has no text (AttributeError)
ProviderOutcomes ==
    { Outcome("raise", <<"remote", " ", "error">>),
      Outcome("result", <<"payload">>),
      Outcome("empty", <<"list", " ", "index", " ", "out", " ", "of", " ", "range">>),
      Outcome("notext", <<"no", " ", "attribute", " ", "text">>) }

\* lines typed at the "User: " prompt
RawInputs ==
    { <<>>, <<"hello">>,
      <<"hello", " ", "a", "@", "b", ".", "a", "a">>,
      <<"a", "@", "b", ".", "a", "a", "|", "a">>,
      <<"quit">>, <<"QUIT">>, <<" ", "Quit", " ">>,
      <<" ", "get_contacts">>, DELETE_CONTACT, GET_COMPANIES }
    \cup SixTools

\* lines typed at the prompts of manual_command
PromptInputs == { <<>>, <<" ">>, <<"1">>, <<" ", "0", "1", " ">>, <<"-", "1">>, <<"1", "_", "0">>,
                  <<"a">>, <<"1", ".", "0">>, <<"_", "1">> }

(***************************************************************************)
(* State.                                                                  *)
(***************************************************************************)

VARIABLES
    pc,                 \* where main is: "main", "input", "smart",
                        \* "classifier_wait", "manual", "provider_wait",
                        \* "cleanup", "exited"
    groq_api_key,       \* self.groq_api_key
    session,            \* self.session is set
    available_tools,    \* self.available_tools, as a set of names
    user_input,         \* the stripped line of the current cycle
    reply,              \* the classifier response of the current cycle
    intent,             \* what analyze_intent returned in the current cycle
    tool_name,          \* the operation name after resolution
    params,             \* the parameters after resolution
    typed,              \* the lines read at the prompts of manual_command
    outcome,            \* how the provider call of the current cycle ended
    printed,            \* the messages printed in the current cycle
    classifierRequests, \* client.post calls in the current cycle
    providerCalls,      \* session.call_tool calls in the current cycle
    catalogWrites,      \* assignments to self.available_tools after __init__
    cleanups,           \* calls of cleanup
    exitReason,         \* why the loop was left
    previous,           \* the resolutions of a session that repeats a text
    GROQ_API_KEY,       \* the server's GROQ_API_KEY
    spc,                \* where the server's running tool is
    called,             \* the server function called last
    requests,           \* make_request calls of that call
    made,               \* the make_request calls that have returned, with their results
    crm_context,        \* analyze_crm_data's crm_context
    returned            \* what the tool returned or raised

clientVars == <<pc, groq_api_key, session, available_tools, user_input, reply, intent,
                tool_name, params, typed, outcome, printed, classifierRequests,
                providerCalls, catalogWrites, cleanups, exitReason, previous>>

serverVars == <<GROQ_API_KEY, spc, called, requests, made, crm_context, returned>>

vars == <<clientVars, serverVars>>

UnsetV  == [t |-> "unset", s |-> <<>>, o |-> <<>>]
NoReply == Response("none", 0, "none", <<>>)
NoIntent == UnsetV
NoOutcome == [kind |-> "none", text |-> <<>>]

Message(kind, text) == [kind |-> kind, text |-> text]

(***************************************************************************)
(* The server, hubspot_mcp_server.py: the values make_request returns and  *)
(* the two tools built on it.                                              *)
(***************************************************************************)

\* what response.json() gives, as far as the tools look at it: None, a dict
\* with its keys, its "results" and its "choices", or a list with its items
SNone == [t |-> "None", keys |-> {}, results |-> <<>>, choices |-> <<>>, items |-> <<>>]

SDict(keys, results, choices) ==
    [t |-> "dict", keys |-> keys, results |-> results, choices |-> choices, items |-> <<>>]

SList(items) ==
    [t |-> "list", keys |-> {}, results |-> <<>>, choices |-> <<>>, items |-> items]

\* an object of "results": its 'properties', when it has them, with the
\* properties given
Item(hasProps, given, firstname, lastname, email) ==
    [hasProps |-> hasProps, given |-> given,
     firstname |-> firstname, lastname |-> lastname, email |-> email]

\* an element of "choices": its message's content, a str or None
Choice(hasMessage, t, s) == [hasMessage |-> hasMessage, t |-> t, s |-> s]

\* bool(v) of Python
Truthy(v) ==
    \/ v.t = "dict" /\ v.keys # {}
    \/ v.t = "list" /\ v.items # <<>>

\* key in v
HasKey(key, v) ==
    \/ v.t = "dict" /\ key \in v.keys
    \/ v.t = "list" /\ \E i \in 1..Len(v.items) : v.items[i] = key

\* str.upper on the letters of a method name
UpperChar(ch) ==
    CASE ch = "g" -> "G" [] ch = "e" -> "E" [] ch = "t" -> "T"
      [] ch = "p" -> "P" [] ch = "o" -> "O" [] ch = "s" -> "S"
      [] ch = "u" -> "U"
      [] OTHER -> ch

Upper(s) == [i \in 1..Len(s) |-> UpperChar(s[i])]

GET  == <<"G", "E", "T">>
POST == <<"P", "O", "S", "T">>

\* how the upstream service answers a request: no connection, no answer in
\* time, or a response with a status and a body that is JSON or is not
Upstream(kind, status, body, json) ==
    [kind |-> kind, status |-> status, body |-> body, json |-> json]

\* response.raise_for_status() returns
IsSuccess(status) == 200 <= status /\ status <= 299

\* a wrapper that reads the body whatever the status
MakeRequestAnyStatus(method, up) ==
    IF Upper(method) \notin {GET, POST} THEN SNone
    ELSE IF up.kind # "response" THEN SNone
    ELSE IF up.body # "json" THEN SNone
    ELSE up.json

\* make_request: the parsed body, or None when the method is unsupported,
\* the request raises, the status is an error or the body is no JSON
MakeRequest(method, up) ==
    IF Upper(method) \notin {GET, POST} THEN SNone
    ELSE IF up.kind # "response" THEN SNone
    ELSE IF ~IsSuccess(up.status) THEN SNone
    ELSE IF up.body # "json" THEN SNone
    ELSE up.json

Return(text) == [kind |-> "return", text |-> text]
Raise(exc)   == [kind |-> "raise", text |-> <<exc>>]
NoReturn     == [kind |-> "none", text |-> <<>>]

CouldNotRetrieve == <<"Could not retrieve contacts.">>
KeyMissing       == <<"Error: GROQ_API_KEY missing from environment.">>
AnalysisFailed   == <<"Failed to generate AI analysis.">>

\* properties.get(name, default)
PropertyOf(c, name, default) ==
    IF name \in c.given
    THEN CASE name = "firstname" -> c.firstname
           [] name = "lastname"  -> c.lastname
           [] OTHER              -> c.email
    ELSE default

\* f"- {firstname} {lastname} ({email})"
ContactLine(c) ==
    <<"- ">> \o PropertyOf(c, "firstname", <<>>) \o <<" ">>
             \o PropertyOf(c, "lastname", <<>>) \o <<" (">>
             \o PropertyOf(c, "email", <<"N/A">>) \o <<")">>

\* "\n".join(lines)
RECURSIVE JoinLines(_)
JoinLines(lines) ==
    IF lines = <<>> THEN <<>>
    ELSE IF Len(lines) = 1 THEN lines[1]
    ELSE lines[1] \o <<"\n">> \o JoinLines(Tail(lines))

\* str(len(contacts))
CountText(n) == <<"0", "1", "2", "3">>[n + 1]

\* get_contacts from the return of make_request on (lines 53-58)
GetContactsReturn(data) ==
    IF ~Truthy(data) \/ ~HasKey("results", data) THEN Return(CouldNotRetrieve)
    ELSE IF data.t # "dict" THEN Raise("TypeError")
    ELSE IF \E i \in 1..Len(data.results) : ~data.results[i].hasProps THEN Raise("KeyError")
    ELSE Return(<<"Found ", CountText(Len(data.results)), " contacts:\n">>
                \o JoinLines([i \in 1..Len(data.results) |-> ContactLine(data.results[i])]))

\* v.get("results", []) if v else []
ResultsOrEmpty(v) ==
    IF ~Truthy(v) THEN [exc |-> "none", list |-> <<>>]
    ELSE IF v.t # "dict" THEN [exc |-> "AttributeError", list |-> <<>>]
    ELSE IF "results" \in v.keys THEN [exc |-> "none", list |-> v.results]
    ELSE [exc |-> "none", list |-> <<>>]

NoContext == [set |-> FALSE, contacts |-> <<>>, deals |-> <<>>]
Context(contacts, deals) == [set |-> TRUE, contacts |-> contacts, deals |-> deals]

\* encode('ascii', 'ignore').decode('ascii')
IsAscii(ch) == ch # "é"
AsciiOnly(s) == SelectSeq(s, IsAscii)

\* analyze_crm_data from the return of the analysis request on (lines 88-92)
AnalyzeReturn(groq_response) ==
    IF Truthy(groq_response) /\ HasKey("choices", groq_response)
    THEN IF groq_response.t # "dict" THEN Raise("TypeError")
         ELSE IF groq_response.choices = <<>> THEN Raise("IndexError")
         ELSE IF ~groq_response.choices[1].hasMessage THEN Raise("KeyError")
         ELSE IF groq_response.choices[1].t # "str" THEN Raise("AttributeError")
         ELSE Return(<<"AI Analysis:\n">> \o AsciiOnly(groq_response.choices[1].s))
    ELSE Return(AnalysisFailed)

\* the environment of the server: method names, bodies and answers
Methods == { <<"G", "E", "T">>, <<"g", "e", "t">>, <<"P", "O", "S", "T">>,
             <<"P", "o", "s", "t">>, <<"P", "U", "T">>, <<>> }

Ann == Item(TRUE, {"firstname", "lastname", "email"}, <<"Ann">>, <<"Lee">>, <<"ann@x.io">>)
Bob == Item(TRUE, {"firstname"}, <<"Bob">>, <<>>, <<>>)
NoProperties == Item(FALSE, {}, <<>>, <<>>, <<>>)

ErrorBody == SDict({"message"}, <<>>, <<>>)

Bodies ==
    { SDict({}, <<>>, <<>>),
      ErrorBody,
      SDict({"results"}, <<>>, <<>>),
      SDict({"results"}, <<Ann>>, <<>>),
      SDict({"results"}, <<Ann, Bob>>, <<>>),
      SDict({"results"}, <<NoProperties>>, <<>>),
      SDict({"choices"}, <<>>, <<Choice(TRUE, "str", <<"caf", "é", " ok">>)>>),
      SDict({"choices"}, <<>>, <<>>),
      SDict({"choices"}, <<>>, <<Choice(FALSE, "None", <<>>)>>),
      SDict({"choices"}, <<>>, <<Choice(TRUE, "None", <<>>)>>),
      SList(<<>>),
      SList(<<"results">>),
      SList(<<"choices">>) }

Upstreams ==
    { Upstream("transport", 0, "none", SNone), Upstream("timeout", 0, "none", SNone) }
    \cup { Upstream("response", st, "text", SNone) : st \in {200, 204, 502} }
    \cup { Upstream("response", st, "json", b) :
             st \in {302, 404, 500}, b \in {ErrorBody, SDict({"results"}, <<Ann>>, <<>>)} }
    \cup { Upstream("response", 200, "json", b) : b \in Bodies }
    \cup { Upstream("response", 201, "json", SDict({"results"}, <<Bob>>, <<>>)) }

ServerKeys == {"None", "", "gsk"}

\* one make_request call that has returned
Made(target, method, up, result) ==
    [target |-> target, method |-> method, up |-> up, result |-> result]

\* the server before any call
ServerStart ==
    /\ spc = "idle"
    /\ called = "none"
    /\ requests = 0
    /\ made = <<>>
    /\ crm_context = NoContext
    /\ returned = NoReturn

\* HubSpotMCPClient(): no session, an empty catalog, the key of the environment;
\* beside it a server that has not been called
Init ==
    /\ pc = "main"
    /\ groq_api_key \in {"None", "", "gsk"}
    /\ session = FALSE
    /\ available_tools = {}
    /\ user_input = <<>>
    /\ reply = NoReply
    /\ intent = NoIntent
    /\ tool_name = UnsetV
    /\ params = UnsetV
    /\ typed = <<>>
    /\ outcome = NoOutcome
    /\ printed = <<>>
    /\ classifierRequests = 0
    /\ providerCalls = 0
    /\ catalogWrites = 0
    /\ cleanups = 0
    /\ exitReason = "none"
    /\ previous = <<>>
    /\ GROQ_API_KEY = "None"
    /\ ServerStart

\* connect_to_server returns: the session is open and the catalog is the
\* list of names the server advertises
ConnectToServer ==
    /\ pc = "main"
    /\ \E tools \in Catalogs : available_tools' = tools
    /\ session' = TRUE
    /\ catalogWrites' = catalogWrites + 1
    /\ pc' = "input"
    /\ UNCHANGED <<serverVars, previous, typed, outcome, groq_api_key, user_input, reply, intent, tool_name, params,
                   printed, classifierRequests, providerCalls, cleanups, exitReason>>

\* a main that connects before its try: a failure skips the finally
ConnectFailsOutsideTry ==
    /\ pc = "main"
    /\ pc' = "exited"
    /\ exitReason' = "connect_failed"
    /\ UNCHANGED <<serverVars, previous, typed, outcome, groq_api_key, session, available_tools, user_input,
                   reply, intent, tool_name, params, printed, classifierRequests,
                   providerCalls, catalogWrites, cleanups>>

\* connect_to_server raises before the catalog is assigned (lines 31-36)
ConnectFails ==
    /\ pc = "main"
    /\ pc' = "cleanup"
    /\ exitReason' = "connect_failed"
    /\ UNCHANGED <<serverVars, previous, typed, outcome, groq_api_key, session, available_tools, user_input, reply, intent,
                   tool_name, params, printed, classifierRequests, providerCalls,
                   catalogWrites, cleanups>>

\* a loop that looks the line up in the catalog before stripping it
ReadInputRoutesRaw ==
    /\ pc = "input"
    /\ \E raw \in RawInputs :
         /\ user_input' = Strip(raw)
         /\ IF IsQuit(Strip(raw))
            THEN pc' = "cleanup" /\ exitReason' = "quit"
            ELSE /\ pc' = IF raw \in available_tools THEN "manual" ELSE "smart"
                 /\ exitReason' = exitReason
    /\ reply' = NoReply
    /\ intent' = NoIntent
    /\ tool_name' = UnsetV
    /\ params' = UnsetV
    /\ typed' = <<>>
    /\ outcome' = NoOutcome
    /\ printed' = <<>>
    /\ classifierRequests' = 0
    /\ providerCalls' = 0
    /\ UNCHANGED <<serverVars, previous, groq_api_key, session, available_tools, catalogWrites, cleanups>>

\* one turn of the while loop up to the branch: read a line, strip it, and
\* leave on 'quit', take the manual path for a catalog name, or go on to
\* process_smart_command
ReadInput ==
    /\ pc = "input"
    /\ \E raw \in RawInputs :
         /\ user_input' = Strip(raw)
         /\ IF IsQuit(Strip(raw))
            THEN pc' = "cleanup" /\ exitReason' = "quit"
            ELSE /\ pc' = IF Strip(raw) \in available_tools THEN "manual" ELSE "smart"
                 /\ exitReason' = exitReason
    /\ reply' = NoReply
    /\ intent' = NoIntent
    /\ tool_name' = UnsetV
    /\ params' = UnsetV
    /\ typed' = <<>>
    /\ outcome' = NoOutcome
    /\ printed' = <<>>
    /\ classifierRequests' = 0
    /\ providerCalls' = 0
    /\ UNCHANGED <<serverVars, previous, groq_api_key, session, available_tools, catalogWrites, cleanups>>

\* input() raises EOFError at the "User: " prompt; nothing in the loop catches it
ReadInputEOF ==
    /\ pc = "input"
    /\ pc' = "cleanup"
    /\ exitReason' = "EOFError"
    /\ UNCHANGED <<serverVars, previous, typed, outcome, groq_api_key, session, available_tools, user_input, reply, intent,
                   tool_name, params, printed, classifierRequests, providerCalls,
                   catalogWrites, cleanups>>

\* process_query up to its await: nothing without a session, else the two
\* header lines and the call
ProcessQuery(tool, p) ==
    /\ tool_name' = tool
    /\ params' = p
    /\ IF ~session
       THEN /\ pc' = "input"
            /\ UNCHANGED <<printed, providerCalls>>
       ELSE /\ printed' = Append(printed, Message("execution", <<>>))
            /\ providerCalls' = providerCalls + 1
            /\ pc' = "provider_wait"
    /\ exitReason' = exitReason

\* process_smart_command from the return of analyze_intent on: resolve,
\* then dispatch a recognized name or print the error; an exception of the
\* resolution leaves the loop through main's finally
Dispatch(it) ==
    LET r == Resolve(it, user_input)
    IN  /\ intent' = ObjV(it)
        /\ IF r.exc # "none"
           THEN /\ pc' = "cleanup"
                /\ exitReason' = r.exc
                /\ tool_name' = r.tool
                /\ params' = UnsetV
                /\ UNCHANGED <<printed, providerCalls>>
           ELSE IF Recognized(r.tool, available_tools)
           THEN ProcessQuery(r.tool, r.params)
           ELSE /\ printed' = Append(printed, Message("not_recognized", <<>>))
                /\ tool_name' = r.tool
                /\ params' = r.params
                /\ pc' = "input"
                /\ UNCHANGED <<providerCalls, exitReason>>

\* analyze_intent without a credential returns at once; the rest of
\* process_smart_command follows without an await in between
SmartNoCredential ==
    /\ pc = "smart"
    /\ NoCredential(groq_api_key)
    /\ Dispatch(Degraded(user_input, ConfidenceNoCredential))
    /\ UNCHANGED <<serverVars, previous, typed, outcome, groq_api_key, session, available_tools, user_input, reply,
                   classifierRequests, catalogWrites, cleanups>>

\* analyze_intent with a credential: the request is posted
ClassifierRequest ==
    /\ pc = "smart"
    /\ ~NoCredential(groq_api_key)
    /\ classifierRequests' = classifierRequests + 1
    /\ pc' = "classifier_wait"
    /\ UNCHANGED <<serverVars, previous, typed, outcome, groq_api_key, session, available_tools, user_input, reply, intent,
                   tool_name, params, printed, providerCalls, catalogWrites, cleanups,
                   exitReason>>

\* an adapter that posts again after a transport error
ClassifierRespondRetry ==
    /\ pc = "classifier_wait"
    /\ \E resp \in Responses :
         /\ reply' = resp
         /\ IF resp.kind = "exception"
            THEN /\ pc' = "smart"
                 /\ UNCHANGED <<intent, tool_name, params, printed, providerCalls, exitReason>>
            ELSE Dispatch(IntentOfResponse(user_input, resp))
    /\ UNCHANGED <<serverVars, previous, typed, outcome, groq_api_key, session, available_tools, user_input,
                   classifierRequests, catalogWrites, cleanups>>

\* the post completes or fails; analyze_intent returns and
\* process_smart_command runs to its next await or to its end
ClassifierRespond ==
    /\ pc = "classifier_wait"
    /\ \E resp \in Responses :
         /\ reply' = resp
         /\ Dispatch(IntentOfResponse(user_input, resp))
    /\ UNCHANGED <<serverVars, previous, typed, outcome, groq_api_key, session, available_tools, user_input,
                   classifierRequests, catalogWrites, cleanups>>

\* an except branch that prints a fixed line and drops the exception's text
ResultMessageNoText(out) ==
    IF out.kind = "result" THEN Message("result", out.text)
    ELSE Message("execution_error", <<>>)

\* print(result.content[0].text), or print(f"Execution Error: {e}")
ResultMessage(out) ==
    IF out.kind = "result" THEN Message("result", out.text)
    ELSE Message("execution_error", out.text)

\* an except branch that also forgets the catalog
ProviderRespondDropsCatalog ==
    /\ pc = "provider_wait"
    /\ \E out \in ProviderOutcomes :
         /\ outcome' = out
         /\ printed' = Append(printed, ResultMessage(out))
         /\ available_tools' = IF out.kind = "raise" THEN {} ELSE available_tools
    /\ pc' = "input"
    /\ UNCHANGED <<serverVars, previous, typed, groq_api_key, session, user_input, reply, intent,
                   tool_name, params, classifierRequests, providerCalls, catalogWrites,
                   cleanups, exitReason>>

\* the rest of process_query: the result's text, or the caught exception
ProviderRespond ==
    /\ pc = "provider_wait"
    /\ \E out \in ProviderOutcomes :
         /\ outcome' = out
         /\ printed' = Append(printed, ResultMessage(out))
    /\ pc' = "input"
    /\ UNCHANGED <<serverVars, previous, typed, groq_api_key, session, available_tools, user_input, reply, intent,
                   tool_name, params, classifierRequests, providerCalls, catalogWrites,
                   cleanups, exitReason>>

Dict1(k, v) == DictSet(EmptyDict, k, v)

\* a manual_command that sends any other catalog name on without parameters
ManualParamsAnyName(command, a, b, c) ==
    CASE command \in {GET_CONTACTS, GET_DEALS} ->
           IF Strip(a) = <<>>
           THEN [exc |-> "none", params |-> ObjV(Dict1(KEY_LIMIT, NumV(DefaultLimit)))]
           ELSE IF IsIntLiteral(Strip(a))
           THEN [exc |-> "none", params |-> ObjV(Dict1(KEY_LIMIT, NumV(IntValue(Strip(a)))))]
           ELSE [exc |-> "ValueError", params |-> UnsetV]
      [] command = CREATE_CONTACT ->
           [exc |-> "none",
            params |-> ObjV(DictSet(DictSet(Dict1(KEY_EMAIL, StrV(Strip(a))),
                                            <<"firstname">>, StrV(Strip(b))),
                                    <<"lastname">>, StrV(Strip(c))))]
      [] command = ANALYZE_CRM_DATA ->
           [exc |-> "none", params |-> ObjV(Dict1(KEY_QUERY, StrV(Strip(a))))]
      [] command = SEARCH_CONTACT_BY_EMAIL ->
           [exc |-> "none", params |-> ObjV(Dict1(KEY_EMAIL, StrV(Strip(a))))]
      [] command = ASK_GROQ ->
           [exc |-> "none", params |-> ObjV(Dict1(KEY_QUESTION, StrV(Strip(a))))]
      [] OTHER -> [exc |-> "none", params |-> ObjV(EmptyDict)]

\* a manual_command that calls int(limit) without the default for ""
ManualParamsNoDefault(command, a, b, c) ==
    CASE command \in {GET_CONTACTS, GET_DEALS} ->
           IF IsIntLiteral(Strip(a))
           THEN [exc |-> "none", params |-> ObjV(Dict1(KEY_LIMIT, NumV(IntValue(Strip(a)))))]
           ELSE [exc |-> "ValueError", params |-> UnsetV]
      [] command = CREATE_CONTACT ->
           [exc |-> "none",
            params |-> ObjV(DictSet(DictSet(Dict1(KEY_EMAIL, StrV(Strip(a))),
                                            <<"firstname">>, StrV(Strip(b))),
                                    <<"lastname">>, StrV(Strip(c))))]
      [] command = ANALYZE_CRM_DATA ->
           [exc |-> "none", params |-> ObjV(Dict1(KEY_QUERY, StrV(Strip(a))))]
      [] command = SEARCH_CONTACT_BY_EMAIL ->
           [exc |-> "none", params |-> ObjV(Dict1(KEY_EMAIL, StrV(Strip(a))))]
      [] command = ASK_GROQ ->
           [exc |-> "none", params |-> ObjV(Dict1(KEY_QUESTION, StrV(Strip(a))))]
      [] OTHER -> [exc |-> "no branch", params |-> UnsetV]

\* the parameters manual_command builds for command from the lines typed at
\* its prompts, or the exception int() raises
ManualParams(command, a, b, c) ==
    CASE command \in {GET_CONTACTS, GET_DEALS} ->
           IF Strip(a) = <<>> THEN [exc |-> "none", params |-> ObjV(Dict1(KEY_LIMIT, NumV(DefaultLimit)))]
           ELSE IF IsIntLiteral(Strip(a))
           THEN [exc |-> "none", params |-> ObjV(Dict1(KEY_LIMIT, NumV(IntValue(Strip(a)))))]
           ELSE [exc |-> "ValueError", params |-> UnsetV]
      [] command = CREATE_CONTACT ->
           [exc |-> "none",
            params |-> ObjV(DictSet(DictSet(Dict1(KEY_EMAIL, StrV(Strip(a))),
                                            <<"firstname">>, StrV(Strip(b))),
                                    <<"lastname">>, StrV(Strip(c))))]
      [] command = ANALYZE_CRM_DATA ->
           [exc |-> "none", params |-> ObjV(Dict1(KEY_QUERY, StrV(Strip(a))))]
      [] command = SEARCH_CONTACT_BY_EMAIL ->
           [exc |-> "none", params |-> ObjV(Dict1(KEY_EMAIL, StrV(Strip(a))))]
      [] command = ASK_GROQ ->
           [exc |-> "none", params |-> ObjV(Dict1(KEY_QUESTION, StrV(Strip(a))))]
      [] OTHER -> [exc |-> "no branch", params |-> UnsetV]

\* the lines manual_command reads for command: one per prompt of its branch
PromptsRead(command, a, b, c) ==
    CASE command = CREATE_CONTACT -> <<a, b, c>>
      [] command \in SixTools \ {CREATE_CONTACT} -> <<a>>
      [] OTHER -> <<>>

\* manual_command(user_input) up to its await or its end
ManualCommand ==
    /\ pc = "manual"
    /\ \E a, b, c \in PromptInputs :
         LET m == ManualParams(user_input, a, b, c)
         IN  /\ typed' = PromptsRead(user_input, a, b, c)
             /\ CASE m.exc = "none" -> ProcessQuery(StrV(user_input), m.params)
                   [] m.exc = "no branch" ->
                        /\ pc' = "input"
                        /\ UNCHANGED <<tool_name, params, printed, providerCalls, exitReason>>
                   [] OTHER ->
                        /\ printed' = Append(printed, Message("input_error", <<m.exc>>))
                        /\ pc' = "input"
                        /\ UNCHANGED <<tool_name, params, providerCalls, exitReason>>
    /\ UNCHANGED <<serverVars, previous, outcome, groq_api_key, session, available_tools, user_input, reply, intent,
                   classifierRequests, catalogWrites, cleanups>>

\* input() raises EOFError at a prompt of manual_command: caught there
ManualEOF ==
    /\ pc = "manual"
    /\ user_input \in SixTools
    /\ printed' = Append(printed, Message("input_error", <<"EOFError">>))
    /\ pc' = "input"
    /\ UNCHANGED <<serverVars, previous, typed, outcome, groq_api_key, session, available_tools, user_input, reply, intent,
                   tool_name, params, classifierRequests, providerCalls, catalogWrites,
                   cleanups, exitReason>>

\* main's finally
Cleanup ==
    /\ pc = "cleanup"
    /\ cleanups' = cleanups + 1
    /\ pc' = "exited"
    /\ UNCHANGED <<serverVars, previous, typed, outcome, groq_api_key, session, available_tools, user_input, reply, intent,
                   tool_name, params, printed, classifierRequests, providerCalls,
                   catalogWrites, exitReason>>

Next ==
    \/ ConnectToServer
    \/ ConnectFails
    \/ ReadInput
    \/ ReadInputEOF
    \/ SmartNoCredential
    \/ ClassifierRequest
    \/ ClassifierRespond
    \/ ProviderRespond
    \/ ManualCommand
    \/ ManualEOF
    \/ Cleanup

Spec == Init /\ [][Next]_vars

(***************************************************************************)
(* A session that resolves a text and then the same text again, with a     *)
(* classifier that answers a text the way it answered it before.           *)
(***************************************************************************)

\* the two resolutions a repeating session makes
MaxResolutions == 2

\* what process_smart_command has resolved when it reaches line 133 or raises
Resolution ==
    [text |-> user_input', reply |-> reply', intent |-> intent',
     tool |-> tool_name', params |-> params', exc |-> exitReason']

\* the loop reads a line for process_smart_command; the second line is the first
TwiceRead ==
    /\ Len(previous) < MaxResolutions
    /\ ReadInput
    /\ pc' = "smart"
    /\ previous # <<>> => user_input' = previous[1].text

\* analyze_intent without a credential, and the resolution that follows
TwiceNoCredential ==
    /\ pc = "smart"
    /\ NoCredential(groq_api_key)
    /\ Dispatch(Degraded(user_input, ConfidenceNoCredential))
    /\ UNCHANGED <<serverVars, typed, outcome, groq_api_key, session, available_tools, user_input, reply,
                   classifierRequests, catalogWrites, cleanups>>
    /\ previous' = Append(previous, Resolution)

\* an adapter that gives up its credential once the classifier has answered
TwiceRespondSpendsCredential ==
    /\ pc = "classifier_wait"
    /\ \E resp \in Responses :
         /\ previous # <<>> => resp = previous[1].reply
         /\ reply' = resp
         /\ Dispatch(IntentOfResponse(user_input, resp))
    /\ groq_api_key' = "None"
    /\ UNCHANGED <<serverVars, typed, outcome, session, available_tools, user_input,
                   classifierRequests, catalogWrites, cleanups>>
    /\ previous' = Append(previous, Resolution)

\* the post completes or fails, the classifier answering a text it has seen
\* as it did then, and the resolution follows
TwiceRespond ==
    /\ pc = "classifier_wait"
    /\ \E resp \in Responses :
         /\ previous # <<>> => resp = previous[1].reply
         /\ reply' = resp
         /\ Dispatch(IntentOfResponse(user_input, resp))
    /\ UNCHANGED <<serverVars, typed, outcome, groq_api_key, session, available_tools, user_input,
                   classifierRequests, catalogWrites, cleanups>>
    /\ previous' = Append(previous, Resolution)

NextTwice ==
    \/ ConnectToServer
    \/ TwiceRead
    \/ TwiceNoCredential
    \/ ClassifierRequest
    \/ TwiceRespond
    \/ ProviderRespond
    \/ Cleanup

SpecTwice == Init /\ [][NextTwice]_vars

(***************************************************************************)
(* The server's functions, one action per stretch between awaits.          *)
(***************************************************************************)

\* HubSpotMCPClient() as in Init, beside a server with any GROQ_API_KEY
InitServer ==
    /\ pc = "main"
    /\ groq_api_key = "None"
    /\ session = FALSE
    /\ available_tools = {}
    /\ user_input = <<>>
    /\ reply = NoReply
    /\ intent = NoIntent
    /\ tool_name = UnsetV
    /\ params = UnsetV
    /\ typed = <<>>
    /\ outcome = NoOutcome
    /\ printed = <<>>
    /\ classifierRequests = 0
    /\ providerCalls = 0
    /\ catalogWrites = 0
    /\ cleanups = 0
    /\ exitReason = "none"
    /\ previous = <<>>
    /\ GROQ_API_KEY \in ServerKeys
    /\ ServerStart

\* make_request called with any method name
CallMakeRequest ==
    /\ spc = "idle"
    /\ \E method \in Methods, up \in Upstreams :
         made' = <<Made("direct", method, up, MakeRequest(method, up))>>
    /\ called' = "make_request"
    /\ requests' = 1
    /\ crm_context' = NoContext
    /\ returned' = NoReturn
    /\ UNCHANGED <<clientVars, GROQ_API_KEY, spc>>

\* get_contacts up to its await: the request for the contacts
CallGetContacts ==
    /\ spc = "idle"
    /\ called' = "get_contacts"
    /\ requests' = 1
    /\ made' = <<>>
    /\ crm_context' = NoContext
    /\ returned' = NoReturn
    /\ spc' = "get_contacts"
    /\ UNCHANGED <<clientVars, GROQ_API_KEY>>

\* make_request returns to get_contacts, which returns or raises
GetContactsRespond ==
    /\ spc = "get_contacts"
    /\ \E up \in Upstreams :
         /\ made' = Append(made, Made("contacts", GET, up, MakeRequest(GET, up)))
         /\ returned' = GetContactsReturn(MakeRequest(GET, up))
    /\ spc' = "idle"
    /\ UNCHANGED <<clientVars, GROQ_API_KEY, called, requests, crm_context>>

\* analyze_crm_data up to its first await: nothing but the error string
\* without a key, else the request for the contacts
CallAnalyzeCrmData ==
    /\ spc = "idle"
    /\ called' = "analyze_crm_data"
    /\ made' = <<>>
    /\ crm_context' = NoContext
    /\ IF GROQ_API_KEY \in {"None", ""}
       THEN /\ returned' = Return(KeyMissing)
            /\ requests' = 0
            /\ spc' = "idle"
       ELSE /\ returned' = NoReturn
            /\ requests' = 1
            /\ spc' = "analyze_contacts"
    /\ UNCHANGED <<clientVars, GROQ_API_KEY>>

\* the contacts arrive or not; the request for the deals
AnalyzeContactsRespond ==
    /\ spc = "analyze_contacts"
    /\ \E up \in Upstreams :
         made' = Append(made, Made("contacts", GET, up, MakeRequest(GET, up)))
    /\ requests' = requests + 1
    /\ spc' = "analyze_deals"
    /\ UNCHANGED <<clientVars, GROQ_API_KEY, called, crm_context, returned>>

\* the deals arrive or not; crm_context is built and the analysis is
\* requested, unless building it raises
AnalyzeDealsRespond ==
    /\ spc = "analyze_deals"
    /\ \E up \in Upstreams :
         LET deals == MakeRequest(GET, up)
             c == ResultsOrEmpty(made[1].result)
             d == ResultsOrEmpty(deals)
         IN  /\ made' = Append(made, Made("deals", GET, up, deals))
             /\ IF c.exc # "none" \/ d.exc # "none"
                THEN /\ returned' = Raise("AttributeError")
                     /\ spc' = "idle"
                     /\ UNCHANGED <<requests, crm_context>>
                ELSE /\ crm_context' = Context(c.list, d.list)
                     /\ requests' = requests + 1
                     /\ spc' = "analyze_groq"
                     /\ UNCHANGED returned
    /\ UNCHANGED <<clientVars, GROQ_API_KEY, called>>

\* the analysis arrives or not; analyze_crm_data returns or raises
AnalyzeGroqRespond ==
    /\ spc = "analyze_groq"
    /\ \E up \in Upstreams :
         /\ made' = Append(made, Made("analysis", POST, up, MakeRequest(POST, up)))
         /\ returned' = AnalyzeReturn(MakeRequest(POST, up))
    /\ spc' = "idle"
    /\ UNCHANGED <<clientVars, GROQ_API_KEY, called, requests, crm_context>>

NextServer ==
    \/ CallMakeRequest
    \/ CallGetContacts
    \/ GetContactsRespond
    \/ CallAnalyzeCrmData
    \/ AnalyzeContactsRespond
    \/ AnalyzeDealsRespond
    \/ AnalyzeGroqRespond

SpecServer == InitServer /\ [][NextServer]_vars

(***************************************************************************)
(* Properties.                                                             *)
(***************************************************************************)

\* the cycle took process_smart_command and its resolution ran to the end
ResolutionCompleted == intent # NoIntent /\ params # UnsetV

NotRecognizedMessage == Message("not_recognized", <<>>)

\* C1: when the operation name resolved by process_smart_command is not in
\* the catalog, the cycle prints the 'not recognized' error, makes no
\* provider call and is back at the prompt.
C1_UnrecognizedNeverDispatched ==
    (tool_name # UnsetV /\ ~(tool_name.t = "str" /\ tool_name.s \in available_tools)) =>
        /\ providerCalls = 0
        /\ pc # "provider_wait"
        /\ outcome = NoOutcome
        /\ ResolutionCompleted => printed = <<NotRecognizedMessage>>

C1_Witness ==
    /\ pc = "input"
    /\ ResolutionCompleted
    /\ tool_name = StrV(DELETE_CONTACT)
    /\ DELETE_CONTACT \notin available_tools
    /\ printed = <<NotRecognizedMessage>>
    /\ providerCalls = 0

\* C2: no error in any path terminates the session loop: the loop is left
\* only by 'quit' (or because connecting failed or the console closed),
\* never by an exception of a cycle.
C2_NoErrorTerminatesLoop ==
    pc \in {"cleanup", "exited"} => exitReason \in {"quit", "connect_failed", "EOFError"}

\* C3: without a credential analyze_intent returns
\* {tool: ask_groq, params: {question: text}, confidence: 0.0} and no
\* request is made to the classifier.
C3_NoCredentialDegrades ==
    groq_api_key \in {"None", ""} =>
        /\ classifierRequests = 0
        /\ pc # "classifier_wait"
        /\ reply = NoReply
        /\ intent # NoIntent =>
             /\ intent.o[KEY_TOOL] = StrV(<<"ask_groq">>)
             /\ intent.o[KEY_PARAMS] = ObjV(DictSet(EmptyDict, <<"question">>, StrV(user_input)))
             /\ intent.o[KEY_CONFIDENCE] = NumV(<<"0.0">>)
             /\ DOMAIN intent.o = {KEY_TOOL, KEY_PARAMS, KEY_CONFIDENCE}

C3_Witness ==
    /\ groq_api_key = ""
    /\ user_input = <<"hello", " ", "a", "@", "b", ".", "a", "a">>
    /\ intent # NoIntent
    /\ intent.o[KEY_CONFIDENCE] = NumV(<<"0.0">>)
    /\ pc = "provider_wait"

\* the reply is one of the failures of the classifier: no response, a
\* status that is not 2xx, a body that cannot be read, a reply without a
\* fragment in braces, or a fragment that is no JSON
ClassifierFailed(r) ==
    \/ r.kind = "exception"
    \/ r.kind = "response" /\ ~(200 <= r.status /\ r.status <= 299)
    \/ r.kind = "response" /\ r.status = 200 /\ r.body \in {"unparsable", "nochoices"}
    \/ r.kind = "response" /\ r.status = 200 /\ r.body = "content"
         /\ \/ \A i, j \in 1..Len(r.content) :
                 ~(i < j /\ r.content[i].k = "{" /\ r.content[j].k = "}")
            \/ ~JsonLoads(BraceSearch(r.content)).ok

\* C4: with a credential, every classifier failure makes analyze_intent
\* return {tool: ask_groq, params: {question: text}, confidence: 0.5},
\* and no exception leaves the cycle.
C4_FailureDegrades ==
    ClassifierFailed(reply) =>
        /\ intent.o[KEY_TOOL] = StrV(<<"ask_groq">>)
        /\ intent.o[KEY_PARAMS] = ObjV(DictSet(EmptyDict, <<"question">>, StrV(user_input)))
        /\ intent.o[KEY_CONFIDENCE] = NumV(<<"0.5">>)
        /\ DOMAIN intent.o = {KEY_TOOL, KEY_PARAMS, KEY_CONFIDENCE}
        /\ exitReason \notin {"KeyError", "TypeError"}

C4_Witness ==
    /\ reply.kind = "response" /\ reply.status = 200 /\ reply.body = "content"
    /\ BraceSearch(reply.content) # NoSpan
    /\ ~JsonLoads(BraceSearch(reply.content)).ok
    /\ user_input = <<"hello">>
    /\ intent = ObjV(Degraded(<<"hello">>, <<"0.5">>))
    /\ pc = "provider_wait"

\* positions of c where a well-formed JSON object starts
ObjectStarts(c) == {i \in 1..Len(c) : c[i].k = "{" /\ ParseValue(c, i).ok}

\* C5: when the classifier answers 200 and the reply contains a well-formed
\* JSON object, analyze_intent returns the parse of the first such object,
\* whatever precedes or follows it.
C5_FirstObjectParsed ==
    (/\ reply.kind = "response" /\ reply.status = 200 /\ reply.body = "content"
     /\ ObjectStarts(reply.content) # {}) =>
        intent = ParseValue(reply.content, MinOf(ObjectStarts(reply.content))).val

\* [A-Za-z], the letters of a top-level domain
InTldLetters(t) == t \in LetterToks

\* s[i..e] is an address local@domain.tld standing between word boundaries
IsAddressIn(s, i, e) ==
    \E k, d \in 1..Len(s) :
        /\ 1 <= i /\ i < k /\ k + 1 < d /\ d < e /\ e <= Len(s)
        /\ WordBoundary(s, i) /\ WordBoundary(s, e + 1)
        /\ \A j \in i..(k - 1) : InLocal(s[j])
        /\ s[k] = "@"
        /\ \A j \in (k + 1)..(d - 1) : InDomain(s[j])
        /\ s[d] = "."
        /\ \A j \in (d + 1)..e : InTldLetters(s[j])
        /\ AtLeastTwoChars(s, d + 1, e)

\* the valid addresses the text contains
AddressesIn(s) ==
    { SubSeq(s, q[1], q[2]) :
        q \in {r \in (1..Len(s)) \X (1..Len(s)) : IsAddressIn(s, r[1], r[2])} }

\* the classifier's params are a dict without the key
ClassifierGaveNo(key) ==
    /\ intent.o[KEY_PARAMS].t = "obj"
    /\ key \notin DOMAIN intent.o[KEY_PARAMS].o

\* the classifier's params are a dict with the key
ClassifierGave(key) ==
    /\ intent.o[KEY_PARAMS].t = "obj"
    /\ key \in DOMAIN intent.o[KEY_PARAMS].o

\* C6: for search_contact_by_email without an email from the classifier,
\* the resolved parameters hold an address of the text as email when the
\* text contains a valid address, and no email when it contains none.
C6_EmailFilledFromText ==
    (/\ ResolutionCompleted
     /\ tool_name = StrV(SEARCH_CONTACT_BY_EMAIL)
     /\ ClassifierGaveNo(KEY_EMAIL)) =>
        IF AddressesIn(user_input) # {}
        THEN /\ KEY_EMAIL \in DOMAIN params.o
             /\ params.o[KEY_EMAIL].t = "str"
             /\ params.o[KEY_EMAIL].s \in AddressesIn(user_input)
        ELSE KEY_EMAIL \notin DOMAIN params.o

FillInRules == { <<ANALYZE_CRM_DATA, KEY_QUERY>>, <<ASK_GROQ, KEY_QUESTION>>,
                 <<SEARCH_CONTACT_BY_EMAIL, KEY_EMAIL>> }

\* C7: for each fill-in rule, a key the classifier's params already hold
\* keeps the classifier's value, and nothing is filled in.
C7_ClassifierValuesWin ==
    ResolutionCompleted =>
        \A rule \in FillInRules :
            (tool_name = StrV(rule[1]) /\ ClassifierGave(rule[2])) =>
                /\ params.o[rule[2]] = intent.o[KEY_PARAMS].o[rule[2]]
                /\ params = intent.o[KEY_PARAMS]

C7_Witness ==
    /\ ResolutionCompleted
    /\ tool_name = StrV(SEARCH_CONTACT_BY_EMAIL)
    /\ user_input = <<"hello", " ", "a", "@", "b", ".", "a", "a">>
    /\ ClassifierGave(KEY_EMAIL)
    /\ params.o[KEY_EMAIL] = StrV(ClassifierValue)
    /\ pc = "provider_wait"

\* C8: when the provider call fails, the exception's text is printed as an
\* execution error, no exception leaves process_query, and the loop is back
\* at its prompt.
C8_ProviderFailureReported ==
    outcome.kind \in {"raise", "empty", "notext"} =>
        /\ printed # <<>>
        /\ printed[Len(printed)] = [kind |-> "execution_error", text |-> outcome.text]
        /\ tool_name.s \in available_tools
        /\ exitReason \in {"none", "EOFError"}
        /\ pc # "input" => (pc \in {"cleanup", "exited"} /\ exitReason = "EOFError")

C8_Witness ==
    /\ outcome.kind = "raise"
    /\ tool_name = StrV(GET_CONTACTS)
    /\ printed[Len(printed)] = [kind |-> "execution_error", text |-> <<"remote", " ", "error">>]
    /\ pc = "input"

\* C9: a cycle makes at most one classifier request and then at most one
\* provider call, neither is repeated, the provider call starts only after
\* the classifier round trip is over, and a line is read only between cycles.
C9_OneRoundTripEach ==
    [][ /\ classifierRequests' <= 1
        /\ providerCalls' <= 1
        /\ classifierRequests' > classifierRequests => (pc = "smart" /\ providerCalls = 0)
        /\ providerCalls' > providerCalls =>
             /\ pc \in {"smart", "classifier_wait", "manual"}
             /\ pc' = "provider_wait"
             /\ classifierRequests' = 0 \/ reply' # NoReply
        /\ pc = "classifier_wait" => (providerCalls = 0 /\ pc' \notin {"smart", "classifier_wait"})
        /\ pc = "provider_wait" => pc' = "input"
        /\ (\/ user_input' # user_input
            \/ classifierRequests' < classifierRequests
            \/ providerCalls' < providerCalls) => pc = "input"
      ]_vars

C9_Witness ==
    /\ pc = "input"
    /\ classifierRequests = 1
    /\ providerCalls = 1
    /\ reply.kind = "exception"
    /\ outcome.kind = "raise"

\* C10: the catalog is assigned by connect_to_server only, once; no later
\* step changes it.
C10_CatalogWrittenOnlyByConnect ==
    [][ /\ available_tools' # available_tools =>
             (pc = "main" /\ pc' = "input" /\ catalogWrites = 0)
        /\ catalogWrites' # catalogWrites =>
             (pc = "main" /\ catalogWrites' = 1)
      ]_vars

C10_Witness ==
    /\ pc = "exited"
    /\ exitReason = "TypeError"
    /\ outcome = NoOutcome
    /\ catalogWrites = 1
    /\ available_tools = ServerTools

\* an integer numeral: a sign or none, then groups of decimal digits joined
\* by single underscores
IsNumeral(s) ==
    \E body \in {s} \cup {Tail(s) : x \in {y \in {s} : y # <<>> /\ y[1] \in {"+", "-"}}} :
        /\ body # <<>>
        /\ \A i \in 1..Len(body) :
             \/ body[i] \in {"0", "1"}
             \/ /\ body[i] = "_"
                /\ 1 < i /\ i < Len(body)
                /\ body[i - 1] \in {"0", "1"} /\ body[i + 1] \in {"0", "1"}
        /\ s = body \/ s[1] \notin {"0", "1", "_"}

InputErrorMessage == [kind |-> "input_error", text |-> <<"ValueError">>]

\* C11: in manual mode for get_contacts or get_deals a Limit that is not
\* empty and no integer numeral ends the cycle with an 'Input Error'
\* message, no provider call and the catalog as it was, back at the prompt;
\* an empty Limit is dispatched with limit 10.
C11_BadLimitIsInputError ==
    [][ (/\ pc = "manual"
         /\ user_input \in {<<"get_contacts">>, <<"get_deals">>}
         /\ typed' # <<>>) =>
           /\ available_tools' = available_tools
           /\ exitReason' = exitReason
           /\ (Strip(typed'[1]) # <<>> /\ ~IsNumeral(Strip(typed'[1]))) =>
                /\ printed' = <<InputErrorMessage>>
                /\ providerCalls' = 0
                /\ pc' = "input"
           /\ Strip(typed'[1]) = <<>> =>
                /\ pc' = "provider_wait"
                /\ providerCalls' = 1
                /\ tool_name' = StrV(user_input)
                /\ params' = ObjV((<<"limit">> :> NumV(<<"1", "0">>)))
                /\ printed' = <<[kind |-> "execution", text |-> <<>>]>>
      ]_vars

C11_Witness ==
    /\ pc = "input"
    /\ user_input = <<"get_deals">>
    /\ typed = << <<"1", ".", "0">> >>
    /\ printed = <<InputErrorMessage>>
    /\ providerCalls = 0
    /\ exitReason = "none"

\* the operations whose missing parameter is the whole text, with that parameter
TextRules == { << <<"ask_groq">>, <<"question">> >>,
               << <<"analyze_crm_data">>, <<"query">> >> }

\* C12: when the resolved operation is ask_groq and the classifier's
\* parameters have no 'question', or it is analyze_crm_data and they have no
\* 'query', the resolved parameters are the classifier's with that one
\* parameter added, its value the input text as it is.
C12_MissingParameterIsTheText ==
    \A rule \in TextRules :
        (/\ ResolutionCompleted
         /\ tool_name = [t |-> "str", s |-> rule[1], o |-> <<>>]
         /\ ClassifierGaveNo(rule[2])) =>
            /\ params.t = "obj"
            /\ DOMAIN params.o = DOMAIN intent.o[<<"params">>].o \cup {rule[2]}
            /\ params.o[rule[2]] = [t |-> "str", s |-> user_input, o |-> <<>>]
            /\ \A k \in DOMAIN intent.o[<<"params">>].o :
                 params.o[k] = intent.o[<<"params">>].o[k]

C12_Witness ==
    /\ ResolutionCompleted
    /\ pc = "provider_wait"
    /\ user_input = <<"hello", " ", "a", "@", "b", ".", "a", "a">>
    /\ tool_name = StrV(<<"ask_groq">>)
    /\ intent.o[<<"params">>] = ObjV((<<"limit">> :> NumV(<<"1">>)))
    /\ params = ObjV((<<"limit">> :> NumV(<<"1">>)) @@ (<<"question">> :> StrV(user_input)))

\* the one parameter a fill-in rule may add for the operation, if any
RuleKeys(tool) ==
    { rule[2] : rule \in { r \in FillInRules : tool = StrV(r[1]) } }

\* C13: the parameters the resolver hands on are the classifier's parameters
\* with at most the one key of the fill-in rule of the resolved operation
\* added; for an operation without a rule they are the classifier's exactly;
\* the operation name is the classifier's.
C13_NothingFabricated ==
    ResolutionCompleted =>
        /\ tool_name = intent.o[<<"tool">>]
        /\ \/ params = intent.o[<<"params">>]
           \/ /\ params.t = "obj" /\ intent.o[<<"params">>].t = "obj"
              /\ \E k \in RuleKeys(tool_name) :
                   /\ k \notin DOMAIN intent.o[<<"params">>].o
                   /\ DOMAIN params.o = DOMAIN intent.o[<<"params">>].o \cup {k}
              /\ \A k \in DOMAIN intent.o[<<"params">>].o :
                   params.o[k] = intent.o[<<"params">>].o[k]

C13_Witness ==
    /\ ResolutionCompleted
    /\ pc = "provider_wait"
    /\ tool_name = StrV(<<"create_contact">>)
    /\ intent.o[<<"params">>] = ObjV((<<"email">> :> StrV(<<"hello">>)))
    /\ params = intent.o[<<"params">>]
    /\ user_input = <<"hello", " ", "a", "@", "b", ".", "a", "a">>

\* the text is 'quit' in any letter case
SaysQuit(s) == Len(s) = 1 /\ s[1] \in {"quit", "QUIT", "Quit"}

\* the cycle has consulted analyze_intent
ThroughAnalyzeIntent == intent # NoIntent

\* C14: the stripped line decides the route by being a name of the catalog
\* or not: a catalog name goes to the manual path and no classifier request
\* or decision ever belongs to its cycle; any other line but 'quit' goes to
\* analyze_intent, prompts for nothing, and reaches the provider only with a
\* decision whose operation the catalog holds; no cycle runs both paths.
C14_RoutingExclusive ==
    /\ [][ (pc = "input" /\ exitReason' # "EOFError") =>
             /\ Strip(user_input') = user_input'
             /\ \/ pc' = "cleanup" /\ exitReason' = "quit" /\ SaysQuit(user_input')
                \/ /\ pc' = "manual"
                   /\ user_input' \in available_tools
                   /\ ~SaysQuit(user_input')
                \/ /\ pc' = "smart"
                   /\ user_input' \notin available_tools
                   /\ ~SaysQuit(user_input')
         ]_vars
    /\ [](pc \notin {"main", "exited", "cleanup"} =>
            IF user_input \in available_tools
            THEN /\ pc \notin {"smart", "classifier_wait"}
                 /\ classifierRequests = 0
                 /\ reply = NoReply
                 /\ ~ThroughAnalyzeIntent
            ELSE /\ pc # "manual"
                 /\ typed = <<>>
                 /\ providerCalls > 0 =>
                      /\ ThroughAnalyzeIntent
                      /\ tool_name.t = "str" /\ tool_name.s \in available_tools
                 /\ printed # <<>> => ThroughAnalyzeIntent)

C14_Witness ==
    /\ pc = "provider_wait"
    /\ user_input = <<"get_contacts">>
    /\ typed = << <<>> >>
    /\ classifierRequests = 0
    /\ intent = NoIntent
    /\ providerCalls = 1

\* the confidence of a decision, or that it has none
ConfidenceOf(it) ==
    IF it.t = "obj" /\ <<"confidence">> \in DOMAIN it.o
    THEN it.o[<<"confidence">>] ELSE [t |-> "absent", s |-> <<>>, o |-> <<>>]

\* C15: two resolutions of the same text in a session, with the catalog as
\* it was and a classifier that answers the text as before, give the same
\* operation name, the same parameters and the same confidence, and end the
\* same way.
C15_SameTextSameResolution ==
    \A i, j \in 1..Len(previous) :
        previous[i].text = previous[j].text =>
            /\ previous[i].tool = previous[j].tool
            /\ previous[i].params = previous[j].params
            /\ ConfidenceOf(previous[i].intent) = ConfidenceOf(previous[j].intent)
            /\ previous[i].exc = previous[j].exc

C15_Witness ==
    /\ Len(previous) = 2
    /\ previous[1].text = <<"hello", " ", "a", "@", "b", ".", "a", "a">>
    /\ previous[2].text = previous[1].text
    /\ previous[1].reply.kind = "response"
    /\ previous[2].tool = StrV(<<"search_contact_by_email">>)
    /\ previous[2].params = ObjV((<<"email">> :> StrV(<<"a", "@", "b", ".", "a", "a">>)))
    /\ ConfidenceOf(previous[2].intent) = NumV(<<"0.9">>)
    /\ available_tools = SixTools

\* the decision of the cycle is the fallback of analyze_intent
DegradedCycle ==
    /\ intent # NoIntent
    /\ groq_api_key \in {"None", ""} \/ ClassifierFailed(reply)

\* C16: when the catalog has no ask_groq, as the catalog of this
\* repository's server, a cycle whose decision is the fallback (no
\* credential, or any failure of the classifier) prints the 'not recognized'
\* message and nothing else, makes no provider call and raises nothing.
C16_DegradedNeedsAskGroq ==
    (DegradedCycle /\ <<"ask_groq">> \notin available_tools) =>
        /\ providerCalls = 0
        /\ pc # "provider_wait"
        /\ outcome = NoOutcome
        /\ printed = <<NotRecognizedMessage>>
        /\ exitReason \notin {"KeyError", "TypeError"}

C16_Witness ==
    /\ available_tools = {<<"get_contacts">>, <<"analyze_crm_data">>}
    /\ reply.kind = "exception"
    /\ intent # NoIntent
    /\ tool_name = StrV(<<"ask_groq">>)
    /\ printed = <<NotRecognizedMessage>>
    /\ classifierRequests = 1
    /\ providerCalls = 0
    /\ pc = "input"

\* the names manual_command has a branch for
SixNames == { <<"get_contacts">>, <<"create_contact">>, <<"get_deals">>,
              <<"analyze_crm_data">>, <<"search_contact_by_email">>, <<"ask_groq">> }

\* C17: manual_command calls the provider only for one of its six names; for
\* any other name of the catalog it returns at once: no prompt, no provider
\* call, no message, no exception, and the loop is back at its prompt.
C17_ManualOnlySixNames ==
    [][ pc = "manual" =>
          /\ providerCalls' > providerCalls => user_input \in SixNames
          /\ user_input \notin SixNames =>
               /\ pc' = "input"
               /\ providerCalls' = 0
               /\ printed' = <<>>
               /\ typed' = <<>>
               /\ tool_name' = UnsetV /\ params' = UnsetV
               /\ exitReason' = "none"
      ]_vars

C17_Witness ==
    /\ pc = "input"
    /\ user_input = <<"get_companies">>
    /\ user_input \in available_tools
    /\ intent = NoIntent
    /\ providerCalls = 0
    /\ printed = <<>>
    /\ typed = <<>>

\* the ways a session ends: 'quit', a failed connect, an exception that
\* nothing in the loop catches
Endings == {"quit", "connect_failed", "KeyError", "TypeError", "EOFError"}

\* C18: however the session ends, main's finally runs cleanup, and runs it
\* once: the session ends only into the finally, the finally calls cleanup
\* and the program is over; 'quit' in any letter case ends the session
\* without a classifier request or a provider call in its cycle.
C18_CleanupExactlyOnce ==
    /\ [](/\ cleanups = (IF pc = "exited" THEN 1 ELSE 0)
          /\ pc \in {"cleanup", "exited"} <=> exitReason \in Endings
          /\ exitReason \notin Endings => exitReason = "none"
          /\ exitReason = "quit" =>
               /\ SaysQuit(user_input)
               /\ classifierRequests = 0 /\ providerCalls = 0
               /\ reply = NoReply /\ intent = NoIntent)
    /\ [][ /\ (pc \notin {"cleanup", "exited"} /\ exitReason' # "none") => pc' = "cleanup"
           /\ (pc = "input" /\ SaysQuit(user_input')) => exitReason' = "quit"
           /\ pc = "cleanup" => (pc' = "exited" /\ cleanups' = cleanups + 1)
           /\ pc # "exited"
       ]_vars

C18_Witness ==
    /\ pc = "exited"
    /\ cleanups = 1
    /\ exitReason = "quit"
    /\ user_input = <<"Quit">>
    /\ session
    /\ classifierRequests = 0
    /\ providerCalls = 0

\* the request named by a returned make_request call failed: a method that
\* is neither GET nor POST in any letter case, no connection, no answer in
\* time, a status outside 2xx, or a body that is no JSON
RequestFailed(m) ==
    \/ m.method \notin { <<"G", "E", "T">>, <<"g", "e", "t">>,
                         <<"P", "O", "S", "T">>, <<"P", "o", "s", "t">> }
    \/ m.up.kind \in {"transport", "timeout"}
    \/ m.up.kind = "response" /\ (m.up.status < 200 \/ m.up.status > 299)
    \/ m.up.kind = "response" /\ m.up.body # "json"

ToolReturned(text) == returned = [kind |-> "return", text |-> <<text>>]

\* C19: every failed request makes make_request return None; get_contacts
\* then returns 'Could not retrieve contacts.'; analyze_crm_data without a
\* key returns its error string and makes no request; with a key it takes a
\* failed fetch of contacts or deals as an empty list and still requests
\* the analysis, and returns 'Failed to generate AI analysis.' when that
\* request fails; a tool raises only after a request that did not fail.
C19_UpstreamFailuresContained ==
    /\ \A i \in 1..Len(made) : RequestFailed(made[i]) => made[i].result.t = "None"
    /\ (called = "get_contacts" /\ spc = "idle" /\ RequestFailed(made[1])) =>
          ToolReturned("Could not retrieve contacts.")
    /\ (called = "analyze_crm_data" /\ GROQ_API_KEY \in {"None", ""}) =>
          /\ ToolReturned("Error: GROQ_API_KEY missing from environment.")
          /\ requests = 0 /\ made = <<>> /\ spc = "idle"
    /\ (called = "analyze_crm_data" /\ Len(made) >= 2) =>
          /\ (RequestFailed(made[1]) /\ RequestFailed(made[2])) =>
                /\ crm_context = [set |-> TRUE, contacts |-> <<>>, deals |-> <<>>]
                /\ requests = 3
          /\ (RequestFailed(made[1]) /\ crm_context.set) =>
                crm_context.contacts = <<>> /\ requests = 3
          /\ (RequestFailed(made[2]) /\ crm_context.set) =>
                crm_context.deals = <<>> /\ requests = 3
          /\ (RequestFailed(made[1]) /\ made[2].result.t \in {"None", "dict"}) =>
                crm_context.set
          /\ (RequestFailed(made[2]) /\ made[1].result.t \in {"None", "dict"}) =>
                crm_context.set
    /\ (called = "analyze_crm_data" /\ Len(made) = 3 /\ RequestFailed(made[3])) =>
          ToolReturned("Failed to generate AI analysis.")
    /\ returned.kind = "raise" =>
          \E i \in 1..Len(made) : ~RequestFailed(made[i]) /\ made[i].result.t # "None"

C19_Witness ==
    /\ called = "analyze_crm_data"
    /\ GROQ_API_KEY = "gsk"
    /\ Len(made) = 3
    /\ made[1].up.kind = "timeout"
    /\ made[2].up.kind = "response" /\ made[2].up.status = 404 /\ made[2].up.body = "json"
    /\ made[2].result = SNone
    /\ crm_context = Context(<<>>, <<>>)
    /\ made[3].up.kind = "response" /\ made[3].up.status = 200 /\ made[3].up.body = "text"
    /\ returned = Return(AnalysisFailed)
    /\ spc = "idle"

=============================================================================
